---- MODULE Spec2Model ----
(***************************************************************************)
(* pymio: the deferred-rendering effect pipeline of MioImage               *)
(* (src/src/pymio/image.py) with the MioResizeEffect and MioCutEffect      *)
(* effects and the PIL <-> cv2 adapters of src/src/pymio/utils.py.         *)
(*                                                                         *)
(* A Python float is a record [t |-> "float", n, d] (the rational n/d,     *)
(* d > 0; the ratios used are dyadic, so float arithmetic on them is       *)
(* exact), a Python int is [t |-> "int", n, d |-> 1].  An image is a       *)
(* record [some, fmt, w, h, px]: some = FALSE is Python's None, fmt tells  *)
(* a PIL image ("RGBA" channel order) from a cv2 ndarray ("BGRA"), and px  *)
(* is the content, written as the decoded source followed by the library   *)
(* calls that produced it.  An exception is its text, NoExc is a normal    *)
(* return.                                                                 *)
(***************************************************************************)
EXTENDS Integers, Sequences, FiniteSets, TLC

VARIABLES self, call, pre, applied, rendered_from

vars == <<self, call, pre, applied, rendered_from>>

(* ------------------------------ bounds -------------------------------- *)

MaxQueue == 2

MaxRenders == 2

MaxTargetQueue == 1

MaxApplyQueue == 1

(* ------------------------- program constants -------------------------- *)

CV2_INTER_LINEAR == 1

(* ------------------------------ values -------------------------------- *)

NoExc == ""

PyFloat(n, d) == [t |-> "float", n |-> n, d |-> d]

PyInt(n) == [t |-> "int", n |-> n, d |-> 1]

None == [some |-> FALSE, fmt |-> "RGBA", w |-> 0, h |-> 0, px |-> <<>>]

Pixels(f, a, b, c) == [f |-> f, a |-> a, b |-> b, c |-> c]

Decoded(id, w, h) ==
    [some |-> TRUE, fmt |-> "RGBA", w |-> w, h |-> h,
     px |-> <<Pixels("decode", id, w, h)>>]

Min(a, b) == IF a < b THEN a ELSE b

(* float comparisons of the effects: x == 1.0, x <= 0.0, x >= 1.0 *)
IsOne(r) == r.n = r.d

LeZero(r) == r.n <= 0

(* x > 1.0 in the place of x >= 1.0 *)
GeOne_above(r) == r.n > r.d

GeOne(r) == r.n >= r.d

(* Python int(x * r) for x >= 0, r > 0: truncation toward zero *)
IntMul(x, r) == (x * r.n) \div r.d

(* the product truncated in the place of rounded *)
CvRound_truncated(x, r) == (x * r.n) \div r.d

(* cv2's saturate_cast<int>(x * r): round to nearest, ties to even *)
CvRound(x, r) ==
    LET q == (x * r.n) \div r.d
        m == (x * r.n) % r.d
    IN  IF 2 * m < r.d THEN q
        ELSE IF 2 * m > r.d THEN q + 1
        ELSE IF q % 2 = 0 THEN q ELSE q + 1

(* ------------------------ utils.py: the adapters ---------------------- *)

(* cv2.cvtColor(numpy.asarray(image), COLOR_RGBA2BGRA): swaps the channel
   order; cv2 rejects an empty array *)
pil_image_to_cv2(image) ==
    IF image.w = 0 \/ image.h = 0
    THEN [exc |-> "cv2.error", val |-> None]
    ELSE [exc |-> NoExc, val |-> [image EXCEPT !.fmt = "BGRA"]]

(* Image.fromarray(cv2.cvtColor(image, COLOR_BGRA2RGBA)) *)
cv2_image_to_pil(image) ==
    IF image.w = 0 \/ image.h = 0
    THEN [exc |-> "cv2.error", val |-> None]
    ELSE [exc |-> NoExc, val |-> [image EXCEPT !.fmt = "RGBA"]]

(* --------------- the library calls made by the effects ---------------- *)

(* cv2.resize(src, (0, 0), fx, fy, interpolation): dsize is the rounded
   scaled size and must not be empty *)
cv2_resize_ratio(src, fx, fy, interpolation) ==
    LET dw == CvRound(src.w, fx)
        dh == CvRound(src.h, fy)
    IN  IF dw <= 0 \/ dh <= 0
        THEN [exc |-> "cv2.error", val |-> None]
        ELSE [exc |-> NoExc,
              val |-> [src EXCEPT !.w = dw, !.h = dh,
                         !.px = Append(@, Pixels("cv2.resize", dw, dh, interpolation))]]

(* cv2.resize(src, (target_width, target_height), interpolation) *)
cv2_resize_size(src, tw, th, interpolation) ==
    [exc |-> NoExc,
     val |-> [src EXCEPT !.w = tw, !.h = th,
                !.px = Append(@, Pixels("cv2.resize", tw, th, interpolation))]]

(* PIL Image.resize((tw, th), resample): a size equal to the image's own
   returns self.copy(), also for an image of zero size; any other size below
   one pixel raises "height and width must be > 0" *)
pil_resize(im, tw, th, resample) ==
    IF <<tw, th>> = <<im.w, im.h>>
    THEN [exc |-> NoExc, val |-> im]
    ELSE IF tw < 1 \/ th < 1
    THEN [exc |-> "ValueError: height and width must be > 0", val |-> None]
    ELSE [exc |-> NoExc,
          val |-> [im EXCEPT !.w = tw, !.h = th,
                     !.px = Append(@, Pixels("PIL.resize", tw, th, resample))]]

(* numpy slicing arr[:rows, :cols]: an end past the array is clamped *)
ndarray_slice(arr, rows, cols) ==
    LET sw == Min(cols, arr.w)
        sh == Min(rows, arr.h)
    IN  [arr EXCEPT !.w = sw, !.h = sh,
           !.px = Append(@, Pixels("slice", sw, sh, 0))]

(* PIL Image.crop((0, 0, right, lower)): the result has the size of the
   box, padded where the box leaves the image *)
pil_crop(im, right, lower) ==
    [im EXCEPT !.w = right, !.h = lower,
       !.px = Append(@, Pixels("PIL.crop", right, lower, 0))]

(* ------------------- the targets of the constructors ------------------ *)

(* a bare number (shape "scalar", one item) or a list / tuple of numbers *)
Scalar(x) == [shape |-> "scalar", items |-> <<x>>]

List(xs) == [shape |-> "list", items |-> xs]

isinstance_float(target) == target.shape = "scalar" /\ target.items[1].t = "float"

isinstance_list_or_tuple(target) == target.shape = "list"

(* ------------------------ MioResizeEffect.__init__ -------------------- *)

ResizeDefaults ==
    [class |-> "MioResizeEffect", effect_name |-> "",
     resize_method |-> "cv2", is_ratio_mode |-> TRUE,
     target_width |-> 0, target_height |-> 0,
     width_ratio |-> PyFloat(1, 1), height_ratio |-> PyFloat(1, 1),
     interpolation |-> 0]

(* the classification of target shared by both constructors
   (image.py 376-395 and 490-509): the fields it assigns, or the raise *)
ClassifyTarget(obj, target) ==
    IF isinstance_float(target)
    THEN [exc |-> NoExc,
          obj |-> [obj EXCEPT !.width_ratio = target.items[1],
                              !.height_ratio = target.items[1],
                              !.is_ratio_mode = TRUE]]
    ELSE IF isinstance_list_or_tuple(target)
    THEN IF Len(target.items) = 2
         THEN IF target.items[1].t = "float" /\ target.items[2].t = "float"
              THEN [exc |-> NoExc,
                    obj |-> [obj EXCEPT !.width_ratio = target.items[1],
                                        !.height_ratio = target.items[2],
                                        !.is_ratio_mode = TRUE]]
              ELSE IF target.items[1].t = "int" /\ target.items[2].t = "int"
              THEN [exc |-> NoExc,
                    obj |-> [obj EXCEPT !.target_width = target.items[1].n,
                                        !.target_height = target.items[2].n,
                                        !.is_ratio_mode = FALSE]]
              ELSE [exc |-> NoExc, obj |-> obj]
         ELSE IF Len(target.items) = 1
         THEN [exc |-> "ValueError: Invalid target value.", obj |-> obj]
         ELSE [exc |-> NoExc, obj |-> obj]
    ELSE [exc |-> "ValueError: Invalid target value.", obj |-> obj]

MioResizeEffect(target, interpolation, resize_method) ==
    LET c == ClassifyTarget(ResizeDefaults, target)
    IN  IF c.exc # NoExc THEN c
        ELSE [exc |-> NoExc,
              obj |-> [c.obj EXCEPT !.interpolation = interpolation,
                                    !.resize_method = resize_method]]

(* -------------------------- MioCutEffect.__init__ --------------------- *)

CutDefaults ==
    [class |-> "MioCutEffect", effect_name |-> "",
     cut_method |-> "cv2", is_ratio_mode |-> TRUE,
     target_width |-> 0, target_height |-> 0,
     width_ratio |-> PyFloat(1, 1), height_ratio |-> PyFloat(1, 1)]

MioCutEffect(target, cut_method) ==
    LET c == ClassifyTarget(CutDefaults, target)
    IN  IF c.exc # NoExc THEN c
        ELSE [exc |-> NoExc, obj |-> [c.obj EXCEPT !.cut_method = cut_method]]

(* -------------------------- MioResizeEffect.apply --------------------- *)

(* image is the MioImage record; the result is the exception raised (or
   NoExc for "return True") and the MioImage as the call leaves it *)
Raise(text, image) == [exc |-> text, image |-> image]

Return(image) == [exc |-> NoExc, image |-> image]

(* the effect writing its output into the buffer it was given: while the
   working buffer is still the source object, the source changes with it *)
SetCenter_in_place(image, buffer) ==
    [image EXCEPT !.image_center = buffer, !.width = buffer.w, !.height = buffer.h,
                  !._original_image =
                      IF image.image_center = image._original_image THEN buffer ELSE @]

(* image.image_center = <buffer>; image.width, image.height = buffer.size *)
SetCenter(image, buffer) ==
    [image EXCEPT !.image_center = buffer, !.width = buffer.w, !.height = buffer.h]

MioResizeEffect_apply(e, image) ==
    IF ~image.image_center.some THEN Raise("ValueError: Image not opened.", image)
    ELSE IF e.is_ratio_mode
    THEN IF IsOne(e.width_ratio) /\ IsOne(e.height_ratio) THEN Return(image)
         ELSE IF LeZero(e.width_ratio) \/ LeZero(e.height_ratio)
         THEN Raise("ValueError: Invalid ratio value.", image)
         ELSE IF e.resize_method = "cv2"
         THEN LET a == pil_image_to_cv2(image.image_center)
                  r == cv2_resize_ratio(a.val, e.width_ratio, e.height_ratio,
                                        e.interpolation)
                  b == cv2_image_to_pil(r.val)
              IN  IF a.exc # NoExc THEN Raise(a.exc, image)
                  ELSE IF r.exc # NoExc THEN Raise(r.exc, image)
                  ELSE IF b.exc # NoExc THEN Raise(b.exc, image)
                  ELSE Return(SetCenter(image, b.val))
         ELSE IF e.resize_method = "pil"
         THEN LET target_width == IntMul(image.image_center.w, e.width_ratio)
                  target_height == IntMul(image.image_center.h, e.height_ratio)
                  r == pil_resize(image.image_center, target_width, target_height,
                                  e.interpolation)
              IN  IF r.exc # NoExc THEN Raise(r.exc, image)
                  ELSE Return(SetCenter(image, r.val))
         ELSE Raise("ValueError: Invalid resize method.", image)
    ELSE IF e.target_width <= 0 \/ e.target_height <= 0
         THEN Raise("ValueError: Invalid target size.", image)
         ELSE IF e.target_width = image.width /\ e.target_height = image.height
         THEN Return(image)
         ELSE IF e.resize_method = "cv2"
         THEN LET a == pil_image_to_cv2(image.image_center)
                  r == cv2_resize_size(a.val, e.target_width, e.target_height,
                                       e.interpolation)
                  b == cv2_image_to_pil(r.val)
              IN  IF a.exc # NoExc THEN Raise(a.exc, image)
                  ELSE IF b.exc # NoExc THEN Raise(b.exc, image)
                  ELSE Return(SetCenter(image, b.val))
         ELSE IF e.resize_method = "pil"
         THEN LET r == pil_resize(image.image_center, e.target_width,
                                  e.target_height, e.interpolation)
              IN  IF r.exc # NoExc THEN Raise(r.exc, image)
                  ELSE Return(SetCenter(image, r.val))
         ELSE Raise("ValueError: Invalid resize method.", image)

(* ---------------------------- MioCutEffect.apply ---------------------- *)

MioCutEffect_apply(e, image) ==
    IF ~image.image_center.some THEN Raise("ValueError: Image not opened.", image)
    ELSE IF e.is_ratio_mode
    THEN IF IsOne(e.width_ratio) /\ IsOne(e.height_ratio) THEN Return(image)
         ELSE IF \/ LeZero(e.width_ratio) \/ LeZero(e.height_ratio)
                 \/ GeOne(e.width_ratio) \/ GeOne(e.height_ratio)
         THEN Raise("ValueError: Invalid ratio value.", image)
         ELSE IF e.cut_method = "cv2"
         THEN LET cv2_img == pil_image_to_cv2(image.image_center)
                  b == cv2_image_to_pil(
                           ndarray_slice(cv2_img.val,
                                         IntMul(image.height, e.height_ratio),
                                         IntMul(image.width, e.width_ratio)))
              IN  IF cv2_img.exc # NoExc THEN Raise(cv2_img.exc, image)
                  ELSE IF b.exc # NoExc THEN Raise(b.exc, image)
                  ELSE Return(SetCenter(image, b.val))
         ELSE IF e.cut_method = "pil"
         THEN Return(SetCenter(image,
                        pil_crop(image.image_center,
                                 IntMul(image.width, e.width_ratio),
                                 IntMul(image.height, e.height_ratio))))
         ELSE Raise("ValueError: Invalid cut method.", image)
    ELSE IF e.target_width <= 0 \/ e.target_height <= 0
         THEN Raise("ValueError: Invalid target size.", image)
         ELSE IF e.cut_method = "cv2"
         THEN LET a == pil_image_to_cv2(image.image_center)
                  b == cv2_image_to_pil(
                           ndarray_slice(a.val, e.target_height, e.target_width))
              IN  IF a.exc # NoExc THEN Raise(a.exc, image)
                  ELSE IF b.exc # NoExc THEN Raise(b.exc, image)
                  ELSE Return(SetCenter(image, b.val))
         ELSE IF e.cut_method = "pil"
         THEN Return(SetCenter(image,
                        pil_crop(image.image_center, e.target_width,
                                 e.target_height)))
         ELSE Raise("ValueError: Invalid cut method.", image)

(* effect.apply(self): dispatch on the class of the effect *)
Apply(e, image) ==
    IF e.class = "MioResizeEffect" THEN MioResizeEffect_apply(e, image)
    ELSE MioCutEffect_apply(e, image)

(* ------------------------------ MioImage ------------------------------ *)

NoPath == ""

(* MioImage(): the fields set by MioObject.__init__ and MioImage.__init__
   that the pipeline uses *)
MioImage ==
    [width |-> 0, height |-> 0,
     has_rendered |-> FALSE, rendered_times |-> 0,
     _original_image |-> None, image_center |-> None, result |-> None,
     _original_image_path |-> NoPath,
     effects |-> <<>>]

(* what a method call leaves behind: the exception or the returned value
   (ret names it, val is the image it carries), the MioImage, the number of
   times render() was entered and the applications of the last pass *)
Outcome(exc, image, ret, val, renders, trace) ==
    [exc |-> exc, image |-> image, ret |-> ret, val |-> val,
     renders |-> renders, trace |-> trace]

(* the source assigned without width and height *)
SetOriginal_keep_size(image, im) == [image EXCEPT !._original_image = im]

(* self._original_image = <image>; self.width, self.height = its size *)
SetOriginal(image, im) ==
    [image EXCEPT !._original_image = im, !.width = im.w, !.height = im.h]

(* open with the path recorded before the file is looked for *)
open_path_first(image, img) ==
    IF img.type = "NoneType" THEN Outcome(NoExc, image, "None", None, 0, <<>>)
    ELSE IF img.type = "str"
    THEN IF ~img.exists
         THEN Outcome("FileNotFoundError",
                      [image EXCEPT !._original_image_path = img.path],
                      "", None, 0, <<>>)
         ELSE Outcome(NoExc,
                      [SetOriginal(image, img.data) EXCEPT
                          !._original_image_path = img.path],
                      "self", None, 0, <<>>)
    ELSE IF img.type = "Image"
    THEN Outcome(NoExc, SetOriginal(image, img.data), "self", None, 0, <<>>)
    ELSE IF img.type = "ndarray"
    THEN LET c == cv2_image_to_pil(img.data)
         IN  IF c.exc # NoExc THEN Outcome(c.exc, image, "", None, 0, <<>>)
             ELSE Outcome(NoExc, SetOriginal(image, c.val), "self", None, 0, <<>>)
    ELSE IF img.type \in {"bytes", "BytesIO"}
    THEN Outcome(NoExc, SetOriginal(image, img.data), "self", None, 0, <<>>)
    ELSE Outcome("MioTypeUnexpectedError", image, "", None, 0, <<>>)

(* open that skips an argument of a type it does not know *)
open_skip_unknown(image, img) ==
    IF img.type = "NoneType" THEN Outcome(NoExc, image, "None", None, 0, <<>>)
    ELSE IF img.type = "str"
    THEN IF ~img.exists
         THEN Outcome("FileNotFoundError", image, "", None, 0, <<>>)
         ELSE Outcome(NoExc,
                      [SetOriginal(image, img.data) EXCEPT
                          !._original_image_path = img.path],
                      "self", None, 0, <<>>)
    ELSE IF img.type = "Image"
    THEN Outcome(NoExc, SetOriginal(image, img.data), "self", None, 0, <<>>)
    ELSE IF img.type = "ndarray"
    THEN LET c == cv2_image_to_pil(img.data)
         IN  IF c.exc # NoExc THEN Outcome(c.exc, image, "", None, 0, <<>>)
             ELSE Outcome(NoExc, SetOriginal(image, c.val), "self", None, 0, <<>>)
    ELSE IF img.type \in {"bytes", "BytesIO"}
    THEN Outcome(NoExc, SetOriginal(image, img.data), "self", None, 0, <<>>)
    ELSE Outcome(NoExc, image, "self", None, 0, <<>>)

(* MioImage.open(img).  img is [type, path, exists, data]: the Python type
   of the argument, and for a path whether the file exists; data is the
   image the file, bytes or stream decodes to, or the object passed *)
open(image, img) ==
    IF img.type = "NoneType" THEN Outcome(NoExc, image, "None", None, 0, <<>>)
    ELSE IF img.type = "str"
    THEN IF ~img.exists
         THEN Outcome("FileNotFoundError", image, "", None, 0, <<>>)
         ELSE Outcome(NoExc,
                      [SetOriginal(image, img.data) EXCEPT
                          !._original_image_path = img.path],
                      "self", None, 0, <<>>)
    ELSE IF img.type = "Image"
    THEN Outcome(NoExc, SetOriginal(image, img.data), "self", None, 0, <<>>)
    ELSE IF img.type = "ndarray"
    THEN LET c == cv2_image_to_pil(img.data)
         IN  IF c.exc # NoExc THEN Outcome(c.exc, image, "", None, 0, <<>>)
             ELSE Outcome(NoExc, SetOriginal(image, c.val), "self", None, 0, <<>>)
    ELSE IF img.type = "bytes"
    THEN Outcome(NoExc, SetOriginal(image, img.data), "self", None, 0, <<>>)
    ELSE IF img.type = "BytesIO"
    THEN Outcome(NoExc, SetOriginal(image, img.data), "self", None, 0, <<>>)
    ELSE Outcome("MioTypeUnexpectedError", image, "", None, 0, <<>>)

(* add_effect with the effect put at the head of the queue *)
add_effect_front(image, effect) ==
    Outcome(NoExc, [image EXCEPT !.effects = <<effect>> \o @],
            "self", None, 0, <<>>)

(* MioImage.add_effect(effect) *)
add_effect(image, effect) ==
    Outcome(NoExc, [image EXCEPT !.effects = Append(@, effect)],
            "self", None, 0, <<>>)

(* MioImage.resize(target, interpolation, resize_method) *)
resize(image, target, interpolation, resize_method) ==
    LET c == MioResizeEffect(target, interpolation, resize_method)
    IN  IF c.exc # NoExc THEN Outcome(c.exc, image, "", None, 0, <<>>)
        ELSE Outcome(NoExc, [image EXCEPT !.effects = Append(@, c.obj)],
                     "self", None, 0, <<>>)

(* one entry of the record of a render pass: which effect of the queue was
   applied, to which buffer, the width and height the MioImage held then,
   and what the application left *)
Applied(i, before, after) ==
    [index |-> i, input |-> before.image_center,
     width |-> before.width, height |-> before.height,
     exc |-> after.exc, output |-> after.image.image_center]

(* for effect in self.effects: effect.apply(self), from the i-th effect on;
   an exception ends the loop.  AfterApply is the loop after one apply. *)
RECURSIVE ApplyEffects(_, _, _)
RECURSIVE AfterApply(_, _, _, _)
(* the loop left after its first effect *)
ApplyEffects_first_only(image, i, trace) ==
    IF i > Min(1, Len(image.effects))
    THEN [exc |-> NoExc, image |-> image, trace |-> trace]
    ELSE AfterApply(image, i, trace, Apply(image.effects[i], image))

ApplyEffects(image, i, trace) ==
    IF i > Len(image.effects) THEN [exc |-> NoExc, image |-> image, trace |-> trace]
    ELSE AfterApply(image, i, trace, Apply(image.effects[i], image))

AfterApply(image, i, trace, r) ==
    IF r.exc # NoExc
    THEN [exc |-> r.exc, image |-> r.image,
          trace |-> Append(trace, Applied(i, image, r))]
    ELSE ApplyEffects(r.image, i + 1, Append(trace, Applied(i, image, r)))

(* the end of render() with self.result assigned whether or not an effect
   raised *)
Composite_always(r) ==
    IF r.exc # NoExc
    THEN Outcome(r.exc, [r.image EXCEPT !.result = r.image.image_center],
                 "", None, 1, r.trace)
    ELSE Outcome(NoExc,
                 [r.image EXCEPT !.result = r.image.image_center,
                                 !.image_center = None,
                                 !.has_rendered = TRUE,
                                 !.rendered_times = @ + 1],
                 "self", None, 1, r.trace)

(* the end of render() with has_rendered set and the count left as it is *)
Composite_uncounted(r) ==
    IF r.exc # NoExc THEN Outcome(r.exc, r.image, "", None, 1, r.trace)
    ELSE Outcome(NoExc,
                 [r.image EXCEPT !.result = r.image.image_center,
                                 !.image_center = None,
                                 !.has_rendered = TRUE],
                 "self", None, 1, r.trace)

(* the end of render(): r is what the loop over the effects left *)
Composite(r) ==
    IF r.exc # NoExc THEN Outcome(r.exc, r.image, "", None, 1, r.trace)
    ELSE Outcome(NoExc,
                 [r.image EXCEPT !.result = r.image.image_center,
                                 !.image_center = None,
                                 !.has_rendered = TRUE,
                                 !.rendered_times = @ + 1],
                 "self", None, 1, r.trace)

(* render() without its assertion on self._original_image *)
render_unchecked(image) ==
    Composite(ApplyEffects([image EXCEPT !.image_center = image._original_image],
                           1, <<>>))

(* render() that goes on from the last result instead of the source *)
render_from_result(image) ==
    IF ~image._original_image.some
    THEN Outcome("AssertionError: No image data to render.", image, "", None, 1, <<>>)
    ELSE Composite(ApplyEffects(
             [image EXCEPT !.image_center =
                  IF image.result.some THEN image.result ELSE image._original_image],
             1, <<>>))

(* MioImage.render() *)
render(image) ==
    IF ~image._original_image.some
    THEN Outcome("AssertionError: No image data to render.", image, "", None, 1, <<>>)
    ELSE Composite(ApplyEffects([image EXCEPT !.image_center = image._original_image],
                                1, <<>>))

(* the second test of the prologue, on what self.render() left *)
CheckRendered(r) ==
    IF r.exc # NoExc THEN r
    ELSE IF ~r.image.result.some
    THEN Outcome("ValueError: No image data.", r.image, "", None, r.renders, r.trace)
    ELSE r

(* the prologue rendering whether or not self.result is there *)
EnsureResult_always(image) == CheckRendered(render(image))

(* the prologue shared by the accessors:
     if self.result is None:
         self.render()
         if self.result is None: raise ValueError("No image data to ...") *)
EnsureResult(image) ==
    IF image.result.some THEN Outcome(NoExc, image, "", None, 0, <<>>)
    ELSE CheckRendered(render(image))

(* a second call made by an accessor: its outcome, with the renders and the
   pass of the first call kept *)
Then(first, second) ==
    [second EXCEPT !.renders = first.renders + @,
                   !.trace = IF second.renders > 0 THEN @ ELSE first.trace]

(* the body of an accessor after the prologue e: the value it returns is
   read from self.result *)
Read(e, ret) ==
    IF e.exc # NoExc THEN e
    ELSE [e EXCEPT !.ret = ret, !.val = e.image.result]

(* self.result.save(path): PIL takes the format from the extension of the
   path and raises ValueError for a stream, which has none *)
Image_save(e, path) ==
    IF e.exc # NoExc THEN e
    ELSE IF path = "BytesIO"
    THEN [e EXCEPT !.exc = "ValueError: unknown file extension",
                   !.ret = "", !.val = None]
    ELSE [e EXCEPT !.ret = "None", !.val = e.image.result]

(* MioImage.save(path) *)
save(image, path) == Image_save(EnsureResult(image), path)

(* MioImage.to_bytes() *)
to_bytes(image) == Read(EnsureResult(image), "bytes")

(* the value an accessor returns after a call w it made *)
Returned(w, ret) == IF w.exc # NoExc THEN w ELSE [w EXCEPT !.ret = ret]

(* base64.b64encode(self.to_bytes()).decode("utf-8") *)
Base64(e) ==
    IF e.exc # NoExc THEN e
    ELSE Returned(Then(e, to_bytes(e.image)), "str")

(* MioImage.to_base64() *)
to_base64(image) == Base64(EnsureResult(image))

(* byte_io = BytesIO(); self.save(byte_io); return byte_io *)
SaveBytesIO(e) ==
    IF e.exc # NoExc THEN e
    ELSE Returned(Then(e, save(e.image, "BytesIO")), "BytesIO")

(* MioImage.to_bytes_io() *)
to_bytes_io(image) == SaveBytesIO(EnsureResult(image))

(* MioImage.to_image() *)
to_image(image) == Read(EnsureResult(image), "Image")

(* return pil_image_to_cv2(self.result) *)
Converted(e, c) ==
    IF c.exc # NoExc THEN [e EXCEPT !.exc = c.exc, !.ret = "", !.val = None]
    ELSE [e EXCEPT !.ret = "ndarray", !.val = c.val]

ToCv2(e) ==
    IF e.exc # NoExc THEN e
    ELSE Converted(e, pil_image_to_cv2(e.image.result))

(* MioImage.to_cv2() *)
to_cv2(image) == ToCv2(EnsureResult(image))

(* MioImage.show() *)
show(image) == Read(EnsureResult(image), "None")

(* get_original_path without its test of self._original_image *)
get_original_path_unchecked(image, enable_tmp) ==
    IF image._original_image_path # NoPath
    THEN Outcome(NoExc, image, image._original_image_path, None, 0, <<>>)
    ELSE IF enable_tmp
    THEN Outcome(NoExc, image, "tmp.png", image._original_image, 0, <<>>)
    ELSE Outcome(NoExc, image, "None", None, 0, <<>>)

(* MioImage.get_original_path(enable_tmp): ret is the path returned, the
   recorded one or that of the file made by tempfile.mkstemp(suffix=".png"),
   and val the image saved to the temporary file *)
get_original_path(image, enable_tmp) ==
    IF ~image._original_image.some
    THEN Outcome("ValueError: No image data to get path.", image, "", None, 0, <<>>)
    ELSE IF image._original_image_path # NoPath
    THEN Outcome(NoExc, image, image._original_image_path, None, 0, <<>>)
    ELSE IF enable_tmp
    THEN Outcome(NoExc, image, "tmp.png", image._original_image, 0, <<>>)
    ELSE Outcome(NoExc, image, "None", None, 0, <<>>)

(* MioImage.copy(): new_image = self; return new_image.  ret "self" says
   that the object returned is the MioImage the call was made on *)
copy(image) == Outcome(NoExc, image, "self", None, 0, <<>>)

Accessors == {"save", "to_bytes", "to_base64", "to_bytes_io", "to_image",
              "to_cv2", "show"}

Accessor(name, image) ==
    CASE name = "save" -> save(image, "out.png")
      [] name = "to_bytes" -> to_bytes(image)
      [] name = "to_base64" -> to_base64(image)
      [] name = "to_bytes_io" -> to_bytes_io(image)
      [] name = "to_image" -> to_image(image)
      [] name = "to_cv2" -> to_cv2(image)
      [] name = "show" -> show(image)

(* ------------------------------ inputs -------------------------------- *)

ImageA == Decoded("a.png", 1000, 800)

ImageB == Decoded("b", 3, 3)

(* the arguments given to open *)
Sources ==
    { [type |-> "str", path |-> "a.png", exists |-> TRUE, data |-> ImageA],
      [type |-> "str", path |-> "missing.png", exists |-> FALSE, data |-> None],
      [type |-> "Image", path |-> NoPath, exists |-> FALSE, data |-> ImageB],
      [type |-> "ndarray", path |-> NoPath, exists |-> FALSE,
       data |-> [ImageB EXCEPT !.fmt = "BGRA"]],
      [type |-> "bytes", path |-> NoPath, exists |-> FALSE, data |-> ImageB],
      [type |-> "BytesIO", path |-> NoPath, exists |-> FALSE, data |-> ImageB],
      [type |-> "NoneType", path |-> NoPath, exists |-> FALSE, data |-> None],
      [type |-> "int", path |-> NoPath, exists |-> FALSE, data |-> None] }

NoTarget == [shape |-> "none", items |-> <<>>]

(* the argument of a call that takes no target: the img given to open, the
   enable_tmp given to get_original_path *)
Argument(kind, x) == [shape |-> kind, items |-> <<x>>]

Half == PyFloat(1, 2)

(* the shapes of target: a float, a pair of floats, a pair of ints, a
   mixed pair, a single-element list, a triple, a bare int *)
TFloat == Scalar(Half)

TFloatPair == List(<<Half, Half>>)

TIntPair == List(<<PyInt(500), PyInt(400)>>)

TMixedPair == List(<<PyInt(300), PyFloat(300, 1)>>)

TSingle == List(<<Half>>)

TTriple == List(<<PyInt(1), PyInt(2), PyInt(3)>>)

TInt == Scalar(PyInt(2))

Targets == {TFloat, TFloatPair, TIntPair, TMixedPair, TSingle, TTriple, TInt}

Methods == {"cv2", "pil", "gpu"}

Args(target, method) == [target |-> target, method |-> method]

(* every target with every method *)
AllArgs == {Args(target, method) : target \in Targets, method \in Methods}

(* the arguments given to MioResizeEffect and to resize in the pipeline *)
ResizeArgs ==
    { Args(TFloat, "cv2"), Args(TIntPair, "pil"), Args(TFloat, "gpu"),
      Args(TSingle, "cv2") }

(* the arguments given to MioCutEffect in the pipeline *)
CutArgs ==
    { Args(TFloatPair, "cv2"), Args(TInt, "cv2") }

(* --------------------------- the state machine ------------------------ *)

Called(op, target, out) ==
    [op |-> op, target |-> target, exc |-> out.exc, ret |-> out.ret,
     val |-> out.val, renders |-> out.renders]

Init ==
    /\ self = MioImage
    /\ pre = MioImage
    /\ call = Called("MioImage", NoTarget, Outcome(NoExc, MioImage, "self", None, 0, <<>>))
    /\ applied = <<>>
    /\ rendered_from = [source |-> None, effects |-> <<>>]

(* the call op left out: self is the MioImage it leaves and pre the one it
   found, call is what it returned or raised, applied the record of the
   render pass it made, and rendered_from the source and the queue that the
   render which assigned self.result started from *)
Do(op, target, out) ==
    /\ self' = out.image
    /\ pre' = self
    /\ rendered_from' =
          IF out.image.rendered_times > self.rendered_times
          THEN [source |-> self._original_image, effects |-> self.effects]
          ELSE rendered_from
    /\ call' = Called(op, target, out)
    /\ applied' = out.trace

(* self.open(img) *)
Open ==
    \E img \in Sources : Do("open", Argument("img", img), open(self, img))

(* self.add_effect(MioResizeEffect(target, resize_method=method)): a
   constructor that raises leaves the call to add_effect unmade *)
AddResize(args, limit) ==
    /\ Len(self.effects) < limit
    /\ \E a \in args :
          LET c == MioResizeEffect(a.target, CV2_INTER_LINEAR, a.method)
          IN  IF c.exc # NoExc
              THEN Do("MioResizeEffect", a.target,
                      Outcome(c.exc, self, "", None, 0, <<>>))
              ELSE Do("add_effect", a.target, add_effect(self, c.obj))

(* self.add_effect(MioCutEffect(target, cut_method=method)) *)
AddCut(args, limit) ==
    /\ Len(self.effects) < limit
    /\ \E a \in args :
          LET c == MioCutEffect(a.target, a.method)
          IN  IF c.exc # NoExc
              THEN Do("MioCutEffect", a.target,
                      Outcome(c.exc, self, "", None, 0, <<>>))
              ELSE Do("add_effect", a.target, add_effect(self, c.obj))

(* self.resize(target, resize_method=method) *)
Resize(args, limit) ==
    /\ Len(self.effects) < limit
    /\ \E a \in args :
          Do("resize", a.target, resize(self, a.target, CV2_INTER_LINEAR, a.method))

(* self.render() *)
Render ==
    /\ self.rendered_times < MaxRenders
    /\ Do("render", NoTarget, render(self))

(* one of the accessors *)
Export ==
    /\ self.result.some \/ self.rendered_times < MaxRenders
    /\ \E name \in Accessors : Do(name, NoTarget, Accessor(name, self))

(* self.get_original_path(enable_tmp) *)
GetOriginalPath ==
    \E enable_tmp \in BOOLEAN :
        Do("get_original_path", Argument("enable_tmp", enable_tmp),
           get_original_path(self, enable_tmp))

Next ==
    \/ Open
    \/ AddResize(ResizeArgs, MaxQueue)
    \/ AddCut(CutArgs, MaxQueue)
    \/ Resize(ResizeArgs, MaxQueue)
    \/ Render
    \/ Export
    \/ GetOriginalPath

Spec == Init /\ [][Next]_vars

(* the constructors on every shape of target, on a pipeline that was opened *)
SourceA == CHOOSE img \in Sources : img.path = "a.png"

OpenA == Do("open", Argument("img", SourceA), open(self, SourceA))

NextTargets ==
    \/ OpenA
    \/ AddResize(AllArgs, MaxTargetQueue)
    \/ AddCut(AllArgs, MaxTargetQueue)
    \/ Resize(AllArgs, MaxTargetQueue)
    \/ Render

SpecTargets == Init /\ [][NextTargets]_vars

(* the effects on ratios below, at and above the limits of 0.0 and 1.0 and
   on absolute sizes, with every method, on the 1000x800 and the 3x3 source *)
Quarter == PyFloat(1, 4)

RatioTargets ==
    { List(<<PyFloat(1, 1), PyFloat(1, 1)>>),
      List(<<PyFloat(0, 1), Half>>),
      List(<<Half, PyFloat(-1, 2)>>),
      List(<<Half, Half>>),
      List(<<Quarter, Half>>),
      List(<<PyFloat(2, 1), PyFloat(3, 2)>>),
      List(<<PyFloat(1, 1), Half>>),
      List(<<Half, PyFloat(2, 1)>>) }

SizeTargets ==
    { List(<<PyInt(0), PyInt(400)>>),
      List(<<PyInt(500), PyInt(-1)>>),
      TIntPair,
      List(<<PyInt(3), PyInt(3)>>) }

ApplyArgs ==
    {Args(target, method) : target \in RatioTargets \cup SizeTargets,
                            method \in Methods}

ApplySources == {img \in Sources : img.type = "Image" \/ img.exists}

OpenSource ==
    \E img \in ApplySources : Do("open", Argument("img", img), open(self, img))

NextApply ==
    \/ OpenSource
    \/ AddResize(ApplyArgs, MaxApplyQueue)
    \/ AddCut(ApplyArgs, MaxApplyQueue)
    \/ Render

SpecApply == Init /\ [][NextApply]_vars

(* Resize in ratio mode with every method on the 1000x800 and the 3x3
   source and on a PIL image of zero height:
   3 * 0.125 rounds and truncates to 0, 3 * 0.25 rounds to 1 and truncates
   to 0, 3 * 0.5 is the tie 1.5 *)
Eighth == PyFloat(1, 8)

ImageZ == Decoded("z", 3, 0)

RatioArgs ==
    {Args(target, method) : target \in RatioTargets \cup {List(<<Eighth, Half>>)},
                            method \in Methods}

RatioSources ==
    ApplySources
      \cup {[type |-> "Image", path |-> NoPath, exists |-> FALSE, data |-> ImageZ]}

OpenRatioSource ==
    \E img \in RatioSources : Do("open", Argument("img", img), open(self, img))

NextRatio ==
    \/ OpenRatioSource
    \/ AddResize(RatioArgs, MaxApplyQueue)
    \/ Render

SpecRatio == Init /\ [][NextRatio]_vars

(* calls on the object that copy() returned: self.copy().open(img),
   self.copy().add_effect(effect), self.copy().render().  The object is the
   one call.ret names, which for copy() is self. *)
Copy == Do("copy", NoTarget, copy(self))

OnCopy == call.op = "copy" /\ call.exc = NoExc /\ call.ret = "self"

CopyOpen ==
    /\ OnCopy
    /\ \E img \in ApplySources :
          Do("copy.open", Argument("img", img), open(self, img))

CopyAddEffect ==
    /\ OnCopy
    /\ Len(self.effects) < MaxQueue
    /\ \E a \in ResizeArgs :
          LET c == MioResizeEffect(a.target, CV2_INTER_LINEAR, a.method)
          IN  /\ c.exc = NoExc
              /\ Do("copy.add_effect", a.target, add_effect(self, c.obj))

CopyRender ==
    /\ OnCopy
    /\ self.rendered_times < MaxRenders
    /\ Do("copy.render", NoTarget, render(self))

NextCopy ==
    \/ OpenSource
    \/ AddResize(ResizeArgs, MaxQueue)
    \/ Render
    \/ Copy
    \/ CopyOpen
    \/ CopyAddEffect
    \/ CopyRender

SpecCopy == Init /\ [][NextCopy]_vars

(* ------------------------------ properties ---------------------------- *)

Last(seq) == seq[Len(seq)]

(* the last call was render() or an accessor *)
Rendering == {"render"} \cup Accessors

(* the pass recorded in applied went through the whole queue: every effect
   of self.effects once, in the order of the queue, none raising, the first
   on the source and each next one on the buffer the one before left *)
WholePass ==
    /\ Len(applied) = Len(self.effects)
    /\ \A i \in 1..Len(applied) :
          /\ applied[i].index = i
          /\ applied[i].exc = NoExc
          /\ applied[i].input = IF i = 1 THEN self._original_image
                                ELSE applied[i - 1].output

(* the buffer the pass recorded in applied ended with *)
PassOutput == IF applied = <<>> THEN self._original_image ELSE Last(applied).output

(* the pass recorded in applied stopped at the effect that raised *)
StoppedAtFailure ==
    /\ applied # <<>>
    /\ Len(applied) <= Len(self.effects)
    /\ Last(applied).exc = call.exc
    /\ \A i \in 1..(Len(applied) - 1) : applied[i].exc = NoExc

(* C1: after an accessor has returned, the result it read was rendered from
   the queue as it is now, also when an Effect was appended after the render
   that cached the result. *)
C1_ExportReflectsQueue ==
    (call.op \in Accessors /\ self.result.some)
        => rendered_from.effects = self.effects

(* C2: a render() that directly follows a successful render() leaves the
   same result and the same width and height. *)
C2_RenderIdempotent ==
    [][(call.op = "render" /\ call.exc = NoExc /\ call'.op = "render")
          => /\ self'.result = self.result
             /\ self'.width = self.width
             /\ self'.height = self.height]_vars

(* C3: a render() in which an Effect raises stops at that Effect and leaves
   self.result as it was; self.result is assigned only by a pass that went
   through the whole queue without an exception, and then holds the buffer
   that pass ended with. *)
C3_FailedRenderKeepsResult ==
    /\ (call.op = "render" /\ call.exc # NoExc /\ pre._original_image.some)
          => (StoppedAtFailure /\ self.result = pre.result)
    /\ (call.op \in Accessors /\ applied # <<>> /\ Last(applied).exc # NoExc)
          => self.result = pre.result
    /\ self.result # pre.result
          => (call.op \in Rendering /\ WholePass /\ self.result = PassOutput)

C3_Witness ==
    /\ call.op = "render"
    /\ call.exc # NoExc
    /\ Len(applied) = 2
    /\ applied[1].output # applied[1].input
    /\ pre.result.some
    /\ self.result = pre.result

(* C4: a render() in which an Effect raises leaves width, height,
   rendered_times and has_rendered as they were before the call. *)
C4_FailedRenderKeepsState ==
    (call.op = "render" /\ call.exc # NoExc)
        => /\ self.width = pre.width
           /\ self.height = pre.height
           /\ self.rendered_times = pre.rendered_times
           /\ self.has_rendered = pre.has_rendered

(* C5, as claimed: an accessor called on an opened pipeline enters render()
   once and rendered_times grows by 1 when self.result is None, and enters it
   not at all when self.result is there; it leaves a result that is there as
   it is. *)
C5_ExportRendersOnce ==
    (call.op \in Accessors /\ pre._original_image.some)
        => IF pre.result.some
           THEN /\ call.renders = 0
                /\ self.rendered_times = pre.rendered_times
                /\ self.result = pre.result
           ELSE /\ call.renders = 1
                /\ self.rendered_times = pre.rendered_times + 1

(* C5, amended: an accessor called on an opened pipeline enters render()
   once when self.result is None: rendered_times grows by 1 and the result is
   the buffer of that pass when no Effect raises, and rendered_times and the
   absent result stay when one does.  It enters render() not at all when
   self.result is there, and leaves that result and the MioImage as they
   are. *)
C5_ExportRendersOnceIfNoEffectRaises ==
    (call.op \in Accessors /\ pre._original_image.some)
        => IF pre.result.some
           THEN /\ call.renders = 0
                /\ self = pre
           ELSE /\ call.renders = 1
                /\ IF applied = <<>> \/ Last(applied).exc = NoExc
                   THEN /\ self.rendered_times = pre.rendered_times + 1
                        /\ WholePass
                        /\ self.result = PassOutput
                   ELSE /\ self.rendered_times = pre.rendered_times
                        /\ self.result = None
                        /\ call.exc = Last(applied).exc

C5_Witness ==
    /\ call.op = "to_base64"
    /\ call.exc = NoExc
    /\ ~pre.result.some
    /\ call.renders = 1
    /\ self.rendered_times = pre.rendered_times + 1
    /\ Len(applied) = 2

(* the exceptions that tell that there is no image data *)
NoImageData ==
    {"AssertionError: No image data to render.", "ValueError: No image data."}

(* C6: on a MioImage that was never opened, render() raises its "No image
   data to render." error and every accessor raises a no-image-data error;
   result stays None, rendered_times 0 and has_rendered False. *)
C6_UnopenedFails ==
    (~pre._original_image.some /\ call.op \in Rendering)
        => /\ call.op = "render" => call.exc = "AssertionError: No image data to render."
           /\ call.exc \in NoImageData
           /\ self.result = None
           /\ self.rendered_times = 0
           /\ self.has_rendered = FALSE
           /\ self = pre

C6_Witness ==
    /\ call.op = "save"
    /\ ~pre._original_image.some
    /\ call.exc \in NoImageData
    /\ Len(self.effects) > 0

(* C7: a render() that returns has applied every Effect of the queue once,
   in the order of the queue, the first to the source and each next one to
   the buffer the one before left; the result is the last buffer and the
   queue holds the same Effects as before. *)
C7_RenderAppliesQueueInOrder ==
    (call.op = "render" /\ call.exc = NoExc)
        => /\ WholePass
           /\ self.result = PassOutput
           /\ self.effects = pre.effects

C7_Witness ==
    /\ call.op = "render"
    /\ call.exc = NoExc
    /\ Len(applied) = 2
    /\ applied[1].output # applied[1].input
    /\ applied[2].output # applied[2].input
    /\ self.effects[1] # self.effects[2]

(* C8: add_effect and resize that return leave the queue as it was with one
   Effect more at its end, and every other field of the MioImage as it was,
   without entering render(); a resize whose constructor raises changes
   nothing. *)
C8_AppendOnlyRecords ==
    /\ (call.op \in {"add_effect", "resize"} /\ call.exc = NoExc)
          => /\ Len(self.effects) = Len(pre.effects) + 1
             /\ SubSeq(self.effects, 1, Len(pre.effects)) = pre.effects
             /\ [self EXCEPT !.effects = pre.effects] = pre
             /\ call.renders = 0
    /\ (call.op = "resize" /\ call.exc # NoExc) => self = pre

C8_Witness ==
    /\ call.op = "add_effect"
    /\ call.exc = NoExc
    /\ Len(self.effects) = 2
    /\ self.effects[1] # self.effects[2]
    /\ pre.result.some
    /\ self.rendered_times = 1

ResizeHalfCv2 == MioResizeEffect(TFloat, CV2_INTER_LINEAR, "cv2").obj

CutHalfCv2 == MioCutEffect(TFloatPair, "cv2").obj

(* C9: on the 1000x800 source, the first render() with the queue
   <<Resize(0.5, cv2)>> leaves 500x400; after Cut((0.5, 0.5), cv2) is
   appended, the next render() leaves 250x200. *)
C9_Scenario ==
    /\ ( /\ call.op = "render" /\ call.exc = NoExc
         /\ self._original_image = ImageA
         /\ self.effects = <<ResizeHalfCv2>>
         /\ self.rendered_times = 1 )
          => /\ <<self.width, self.height>> = <<500, 400>>
             /\ <<self.result.w, self.result.h>> = <<500, 400>>
    /\ ( /\ call.op = "render"
         /\ self._original_image = ImageA
         /\ self.effects = <<ResizeHalfCv2, CutHalfCv2>>
         /\ pre.rendered_times = 1
         /\ <<pre.result.w, pre.result.h>> = <<500, 400>>
         /\ <<pre.width, pre.height>> = <<500, 400>> )
          => /\ call.exc = NoExc
             /\ self.rendered_times = 2
             /\ <<self.width, self.height>> = <<250, 200>>
             /\ <<self.result.w, self.result.h>> = <<250, 200>>

C9_Witness ==
    /\ call.op = "render"
    /\ self._original_image = ImageA
    /\ self.effects = <<ResizeHalfCv2, CutHalfCv2>>
    /\ pre.rendered_times = 1
    /\ <<pre.result.w, pre.result.h>> = <<500, 400>>
    /\ <<self.width, self.height>> = <<250, 200>>
    /\ self.rendered_times = 2

(* the targets the constructors are to accept: a float, a pair of floats, a
   pair of ints *)
Classified(target) ==
    \/ target.shape = "scalar" /\ target.items[1].t = "float"
    \/ /\ target.shape = "list"
       /\ Len(target.items) = 2
       /\ target.items[1].t = target.items[2].t

(* C10: a constructor given a target that is no float, no pair of floats and
   no pair of ints raises "Invalid target value.", so that no Effect is
   built from it and none is appended. *)
C10_UnclassifiedTargetRaises ==
    ( /\ call.op \in {"MioResizeEffect", "MioCutEffect", "add_effect", "resize"}
      /\ ~Classified(call.target) )
        => call.exc = "ValueError: Invalid target value."

(* the img that the last call, an open, was given *)
Opened == call.target.items[1]

(* C15: open with a path that is no existing file raises FileNotFoundError
   and leaves the MioImage as it was: on a fresh one the source stays None,
   on an opened one the source, the recorded path, width and height stay. *)
C15_MissingPathChangesNothing ==
    (call.op = "open" /\ Opened.type = "str" /\ ~Opened.exists)
        => /\ call.exc = "FileNotFoundError"
           /\ self = pre

C15_Witness ==
    /\ call.op = "open"
    /\ Opened.type = "str"
    /\ ~Opened.exists
    /\ call.exc = "FileNotFoundError"
    /\ self._original_image = ImageA
    /\ self._original_image_path = "a.png"
    /\ <<self.width, self.height>> = <<1000, 800>>

(* the types open takes *)
OpenTypes == {"NoneType", "str", "Image", "ndarray", "bytes", "BytesIO"}

(* C16: open with an argument of none of the types it takes (the int 1)
   raises MioTypeUnexpectedError and leaves the source, the recorded path,
   width, height, the queue and the result as they were. *)
C16_UnknownTypeChangesNothing ==
    (call.op = "open" /\ Opened.type \notin OpenTypes)
        => /\ call.exc = "MioTypeUnexpectedError"
           /\ self = pre

C16_Witness ==
    /\ call.op = "open"
    /\ Opened.type = "int"
    /\ call.exc = "MioTypeUnexpectedError"
    /\ self._original_image.some
    /\ self.result.some
    /\ Len(self.effects) > 0

(* C18: open, add_effect, resize and render, when they return, return the
   MioImage they were called on, also open(None). *)
C18_ConfigurationReturnsSelf ==
    (call.op \in {"open", "add_effect", "resize", "render"} /\ call.exc = NoExc)
        => call.ret = "self"

(* the enable_tmp that the last call, a get_original_path, was given *)
EnableTmp == call.target.items[1]

(* C17, as claimed: get_original_path returns the recorded path when there
   is one; without one it returns the path of a temporary file holding the
   image when enable_tmp is true, and returns None without raising when
   enable_tmp is false, also on a MioImage that was never opened. *)
C17_PathOrTemporaryOrNothing ==
    call.op = "get_original_path"
        => IF pre._original_image_path # NoPath
           THEN call.exc = NoExc /\ call.ret = pre._original_image_path
           ELSE IF ~EnableTmp
           THEN call.exc = NoExc /\ call.ret = "None"
           ELSE pre._original_image.some
                    => /\ call.exc = NoExc
                       /\ call.ret = "tmp.png"
                       /\ call.val = pre._original_image

(* C17, amended: on an opened MioImage get_original_path returns the
   recorded path when there is one; without one it returns the path of a
   temporary file holding the image when enable_tmp is true and None when it
   is false.  On a MioImage that was never opened it raises "No image data
   to get path." whatever enable_tmp is.  It leaves the MioImage as it
   was. *)
C17_PathOrTemporaryOrNothingIfOpened ==
    call.op = "get_original_path"
        => /\ self = pre
           /\ IF ~pre._original_image.some
              THEN call.exc = "ValueError: No image data to get path."
              ELSE /\ call.exc = NoExc
                   /\ IF pre._original_image_path # NoPath
                      THEN call.ret = pre._original_image_path
                      ELSE IF EnableTmp
                      THEN call.ret = "tmp.png" /\ call.val = pre._original_image
                      ELSE call.ret = "None"

C17_Witness ==
    /\ call.op = "get_original_path"
    /\ ~EnableTmp
    /\ ~pre._original_image.some
    /\ call.exc = "ValueError: No image data to get path."
    /\ Len(self.effects) > 0

Size(im) == <<im.w, im.h>>

(* the i-th application of the pass recorded in applied: the Effect applied,
   its method, and the width and height the MioImage held before and after *)
Effect(i) == self.effects[applied[i].index]

Method(e) == IF e.class = "MioResizeEffect" THEN e.resize_method ELSE e.cut_method

Before(i) == <<applied[i].width, applied[i].height>>

After(i) ==
    IF i < Len(applied) THEN Before(i + 1) ELSE <<self.width, self.height>>

(* the application left the working buffer, width and height as they were *)
Untouched(i) == applied[i].output = applied[i].input /\ After(i) = Before(i)

BothOne(e) == e.width_ratio.n = e.width_ratio.d /\ e.height_ratio.n = e.height_ratio.d

CutRatioAtLeastOne(e) ==
    /\ e.class = "MioCutEffect"
    /\ e.is_ratio_mode
    /\ e.width_ratio.n >= e.width_ratio.d \/ e.height_ratio.n >= e.height_ratio.d

(* C11, as claimed: a Cut in ratio mode with a ratio >= 1.0 on either axis
   raises "Invalid ratio value." when applied, whatever the pair of ratios
   and the method. *)
C11_CutRatioAtLeastOneFails ==
    \A i \in 1..Len(applied) :
        CutRatioAtLeastOne(Effect(i))
            => applied[i].exc = "ValueError: Invalid ratio value."

(* C11, amended: a Cut in ratio mode with a ratio >= 1.0 on either axis
   raises "Invalid ratio value." when applied, whatever the method, and
   leaves the working buffer, width and height as they were, unless both
   ratios are exactly 1.0: then it returns and changes nothing. *)
C11_CutRatioAtLeastOneFailsUnlessBothOne ==
    \A i \in 1..Len(applied) :
        CutRatioAtLeastOne(Effect(i))
            => /\ applied[i].exc = IF BothOne(Effect(i)) THEN NoExc
                                   ELSE "ValueError: Invalid ratio value."
               /\ Untouched(i)

C11_Witness ==
    /\ call.op = "render"
    /\ Len(applied) = 1
    /\ CutRatioAtLeastOne(Effect(1))
    /\ Effect(1).width_ratio.n = Effect(1).width_ratio.d
    /\ Effect(1).height_ratio.n < Effect(1).height_ratio.d
    /\ Effect(1).cut_method = "pil"
    /\ applied[1].exc = "ValueError: Invalid ratio value."

ResizeRatio(e) == e.class = "MioResizeEffect" /\ e.is_ratio_mode

AnyLeZero(e) == e.width_ratio.n <= 0 \/ e.height_ratio.n <= 0

Recognized == {"cv2", "pil"}

(* d is x scaled by the ratio r, to the pixel below or above the product *)
Scaled(x, r, d) == x * r.n - r.d < d * r.d /\ d * r.d < x * r.n + r.d

(* the application resized the working buffer by the ratios of e and set
   width and height to the size of the new buffer *)
ScaledByRatios(i, e) ==
    /\ applied[i].exc = NoExc
    /\ Scaled(applied[i].input.w, e.width_ratio, applied[i].output.w)
    /\ Scaled(applied[i].input.h, e.height_ratio, applied[i].output.h)
    /\ After(i) = Size(applied[i].output)

(* C12, as claimed: a Resize in ratio mode with both ratios 1.0 returns and
   changes nothing; with a ratio <= 0 on either axis it raises "Invalid
   ratio value." whatever its method and changes nothing; with any other
   ratios it returns, the buffer, width and height being the scaled size. *)
C12_ResizeRatio ==
    \A i \in 1..Len(applied) :
        ResizeRatio(Effect(i))
            => IF BothOne(Effect(i))
               THEN applied[i].exc = NoExc /\ Untouched(i)
               ELSE IF AnyLeZero(Effect(i))
               THEN applied[i].exc = "ValueError: Invalid ratio value." /\ Untouched(i)
               ELSE Method(Effect(i)) \in Recognized => ScaledByRatios(i, Effect(i))

(* d is the product x * r with the fraction dropped, as int() leaves it *)
Truncated(x, r, d) == d * r.d <= x * r.n /\ x * r.n < (d + 1) * r.d

(* d is the product x * r rounded to the nearest integer, a half going to
   the even one *)
Rounded(x, r, d) ==
    LET twice == 2 * (d * r.d - x * r.n)
    IN  /\ -r.d <= twice
        /\ twice <= r.d
        /\ (twice = r.d \/ twice = -r.d) => d % 2 = 0

(* the size im is scaled to by the ratios of e with its method is size *)
ScaledSize(e, im, size) ==
    IF Method(e) = "cv2"
    THEN Rounded(im.w, e.width_ratio, size[1]) /\ Rounded(im.h, e.height_ratio, size[2])
    ELSE Truncated(im.w, e.width_ratio, size[1]) /\ Truncated(im.h, e.height_ratio, size[2])

(* the scaled size is im's own size *)
OwnSize(e, im) == ScaledSize(e, im, Size(im))

(* the scaled size is at least one pixel on each axis: a product above 0.5
   rounds to 1 or more, a product of 1 or more truncates to 1 or more *)
OnePixel(e, im) ==
    IF Method(e) = "cv2"
    THEN /\ 2 * im.w * e.width_ratio.n > e.width_ratio.d
         /\ 2 * im.h * e.height_ratio.n > e.height_ratio.d
    ELSE /\ im.w * e.width_ratio.n >= e.width_ratio.d
         /\ im.h * e.height_ratio.n >= e.height_ratio.d

(* the error of the library call of a method given a size it cannot make *)
LibraryError(e) ==
    IF Method(e) = "cv2" THEN "cv2.error"
    ELSE "ValueError: height and width must be > 0"

(* C12, amended: as C12 in the first two cases.  With any other ratios and
   the method cv2 or pil, the scaled size is the products of the working
   buffer's width and height with the ratios, rounded to the nearest integer
   (a half to the even one) by cv2 and truncated by pil.  When the scaled
   size is at least one pixel on each axis, or, with pil, is the working
   buffer's own size (as it is for a buffer of zero size whose other axis
   keeps its length), the Effect returns and the working buffer, width and
   height are exactly the scaled size.  Otherwise the library call raises
   (cv2.error, ValueError "height and width must be > 0") and the working
   buffer, width and height stay as they were. *)
C12_ResizeRatioToScaledSize ==
    \A i \in 1..Len(applied) :
        ResizeRatio(Effect(i))
            => IF BothOne(Effect(i))
               THEN applied[i].exc = NoExc /\ Untouched(i)
               ELSE IF AnyLeZero(Effect(i))
               THEN applied[i].exc = "ValueError: Invalid ratio value." /\ Untouched(i)
               ELSE Method(Effect(i)) \in Recognized
                    => IF \/ OnePixel(Effect(i), applied[i].input)
                          \/ Method(Effect(i)) = "pil" /\ OwnSize(Effect(i), applied[i].input)
                       THEN /\ applied[i].exc = NoExc
                            /\ ScaledSize(Effect(i), applied[i].input, Size(applied[i].output))
                            /\ After(i) = Size(applied[i].output)
                       ELSE /\ applied[i].exc = LibraryError(Effect(i))
                            /\ Untouched(i)

(* a pass on the image of zero height: pil, given the buffer's own size 3x0
   by the ratios 1.0 and 0.5, returns, and render() has its result *)
C12_Witness ==
    /\ call.op = "render"
    /\ call.exc = NoExc
    /\ Len(applied) = 1
    /\ ResizeRatio(Effect(1))
    /\ ~BothOne(Effect(1))
    /\ ~AnyLeZero(Effect(1))
    /\ Method(Effect(1)) = "pil"
    /\ Size(applied[1].input) = <<3, 0>>
    /\ applied[1].exc = NoExc
    /\ Size(self.result) = <<3, 0>>
    /\ <<self.width, self.height>> = <<3, 0>>

(* the target of e is in the domain of its class and mode *)
ValidTarget(e) ==
    IF ~e.is_ratio_mode THEN e.target_width > 0 /\ e.target_height > 0
    ELSE IF e.class = "MioResizeEffect" THEN ~AnyLeZero(e)
    ELSE \/ BothOne(e)
         \/ /\ ~AnyLeZero(e)
            /\ e.width_ratio.n < e.width_ratio.d
            /\ e.height_ratio.n < e.height_ratio.d

(* C13: applying a Resize or a Cut whose method is neither "cv2" nor "pil"
   raises "Invalid resize method." / "Invalid cut method." in every mode and
   for every target that is valid otherwise, also the ratios 1.0/1.0 and an
   absolute target equal to the current width and height. *)
C13_UnknownMethodRaises ==
    \A i \in 1..Len(applied) :
        (Method(Effect(i)) \notin Recognized /\ ValidTarget(Effect(i)))
            => applied[i].exc =
                  IF Effect(i).class = "MioResizeEffect"
                  THEN "ValueError: Invalid resize method."
                  ELSE "ValueError: Invalid cut method."

ResizeSize(e) == e.class = "MioResizeEffect" /\ ~e.is_ratio_mode

(* C14: a Resize in absolute mode with a target <= 0 on either axis raises
   "Invalid target size."; with a target equal to the size of the working
   buffer it returns, the sizes staying; with any other target and the
   method cv2 or pil it returns, and the working buffer, width and height
   are exactly the target. *)
C14_ResizeSize ==
    \A i \in 1..Len(applied) :
        ResizeSize(Effect(i))
            => IF Effect(i).target_width <= 0 \/ Effect(i).target_height <= 0
               THEN applied[i].exc = "ValueError: Invalid target size."
               ELSE IF <<Effect(i).target_width, Effect(i).target_height>>
                          = Size(applied[i].input)
               THEN /\ Method(Effect(i)) \in Recognized => applied[i].exc = NoExc
                    /\ Size(applied[i].output) = Size(applied[i].input)
               ELSE Method(Effect(i)) \in Recognized
                    => /\ applied[i].exc = NoExc
                       /\ Size(applied[i].output)
                             = <<Effect(i).target_width, Effect(i).target_height>>
                       /\ After(i) = <<Effect(i).target_width, Effect(i).target_height>>

(* C19: width and height are the size of the source after an open that was
   given an image (open(None) loads nothing and is left out) and as long
   as no render() has returned, the size of the result after a render() that
   returned, and, in a render pass, the size of the working buffer before
   each Effect is applied, also in a second pass. *)
C19_DimensionsFollowBuffer ==
    /\ (call.op = "open" /\ call.exc = NoExc /\ Opened.type # "NoneType")
          => <<self.width, self.height>> = Size(self._original_image)
    /\ (self._original_image.some /\ self.rendered_times = 0)
          => <<self.width, self.height>> = Size(self._original_image)
    /\ (call.op = "render" /\ call.exc = NoExc)
          => <<self.width, self.height>> = Size(self.result)
    /\ \A i \in 1..Len(applied) :
          <<applied[i].width, applied[i].height>> = Size(applied[i].input)

(* C20: rendered_times never decreases: a call leaves it as it was or one
   higher; a render() that returns leaves it one higher and a render() that
   raises leaves it as it was.  has_rendered is True exactly when
   rendered_times > 0, and a result is there only when rendered_times > 0. *)
C20_RenderCount ==
    /\ self.rendered_times \in {pre.rendered_times, pre.rendered_times + 1}
    /\ call.op = "render"
          => self.rendered_times =
                IF call.exc = NoExc THEN pre.rendered_times + 1
                ELSE pre.rendered_times
    /\ self.has_rendered <=> self.rendered_times > 0
    /\ self.result.some => self.rendered_times > 0

C20_Witness ==
    /\ call.op = "render"
    /\ call.exc = NoExc
    /\ self.rendered_times = 2
    /\ pre.rendered_times = 1
    /\ pre.has_rendered
    /\ Len(self.effects) = 2

(* C21: image_center is there only while render() runs: before any render
   and after every call, a render() that returned or raised included, it is
   None. *)
C21_NoBufferOutsideRender == ~self.image_center.some

(* C22: an open that returns, given an image, makes that image the source in
   the place of the one before and sets width and height to its size;
   open(None) leaves every field as it was; neither changes the queue or
   rendered_times. *)
C22_OpenReplacesSource ==
    (call.op = "open" /\ call.exc = NoExc)
        => /\ IF Opened.type = "NoneType" THEN self = pre
              ELSE /\ [self._original_image EXCEPT !.fmt = Opened.data.fmt] = Opened.data
                   /\ <<self.width, self.height>> = Size(Opened.data)
           /\ self.effects = pre.effects
           /\ self.rendered_times = pre.rendered_times

C22_Witness ==
    /\ call.op = "open"
    /\ call.exc = NoExc
    /\ Opened.type = "ndarray"
    /\ pre._original_image = ImageA
    /\ self._original_image = ImageB
    /\ <<pre.width, pre.height>> # <<self.width, self.height>>
    /\ Len(self.effects) > 0
    /\ self.rendered_times > 0

(* C23: an accessor never returns the result of an older source: the result
   it read was rendered from the source that is opened now, also when
   another source was opened after the render. *)
C23_ExportServesCurrentSource ==
    (call.op \in Accessors /\ call.exc = NoExc)
        => rendered_from.source = self._original_image

(* C24: add_effect, resize, render (returning or raising) and the accessors
   leave the source as it was: only open assigns it, although render starts
   the working buffer from the source object itself. *)
C24_SourceNeverMutated ==
    call.op # "open" => self._original_image = pre._original_image

C24_Witness ==
    /\ call.op = "render"
    /\ call.exc = NoExc
    /\ Len(applied) = 2
    /\ applied[1].input = self._original_image
    /\ applied[1].output # applied[1].input
    /\ self.result # self._original_image
    /\ self._original_image = ImageA
    /\ self.rendered_times = 2

(* the size a Cut is to leave: the width and height held by the MioImage
   times the ratios, truncated, or the absolute target *)
CutSize(i, e) ==
    IF e.is_ratio_mode
    THEN << (applied[i].width * e.width_ratio.n) \div e.width_ratio.d,
            (applied[i].height * e.height_ratio.n) \div e.height_ratio.d >>
    ELSE <<e.target_width, e.target_height>>

(* C25: a Cut that returns leaves, with the method cv2 as with the method
   pil, a working buffer of the same size for the same configuration and
   buffer: the truncated products in ratio mode, the target in absolute
   mode, also when the target is larger than the buffer on an axis. *)
C25_CutSizeSameForBothMethods ==
    \A i \in 1..Len(applied) :
        ( /\ Effect(i).class = "MioCutEffect"
          /\ Method(Effect(i)) \in Recognized
          /\ ~(Effect(i).is_ratio_mode /\ BothOne(Effect(i)))
          /\ applied[i].exc = NoExc )
            => Size(applied[i].output) = CutSize(i, Effect(i))

(* C26: the object copy() returns is independent of the MioImage it was
   called on: open, add_effect and render called on it leave every field of
   that MioImage as it was. *)
C26_CopyIsIndependent ==
    call.op \in {"copy.open", "copy.add_effect", "copy.render"} => self = pre

====
